---- MODULE Spec2Model ----
(***************************************************************************)
(* A model of pathfinder's color crate (color/src/lib.rs): the 8-bit       *)
(* ColorU, the 4-lane single-precision ColorF, and the conversions and     *)
(* operations between them.                                                *)
(*                                                                         *)
(* Single-precision values are modelled bit-exactly.  A finite f32 is the  *)
(* record [s, e, m] with value (-1)^s * m * 2^e, where m = 0 (a zero) or   *)
(* 2^23 <= m < 2^24 (a normal number).  Every arithmetic operation rounds  *)
(* to nearest, ties to even, as IEEE-754 binary32 does.  Intermediate      *)
(* results wider than 31 bits are kept as two 24-bit limbs (hi, lo), so no *)
(* step of the model exceeds the range of a 32-bit integer.  Subnormals,   *)
(* infinities and NaNs are outside the model: the inputs below keep every  *)
(* exponent well inside the normal range.                                  *)
(***************************************************************************)
EXTENDS Integers, Sequences, FiniteSets, TLC

(***************************************************************************)
(* ColorU: four 8-bit channels.                                            *)
(***************************************************************************)
ColorU_new(r, g, b, a) == [r |-> r, g |-> g, b |-> b, a |-> a]

(***************************************************************************)
(* Widths of the machine types.                                            *)
(***************************************************************************)
U8Max == 255
MantBits == 24

Pow2(k) == 2 ^ k

Limb == Pow2(MantBits)

RECURSIVE BitLen(_)
BitLen(n) == IF n = 0 THEN 0 ELSE 1 + BitLen(n \div 2)

(***************************************************************************)
(* f32 values.                                                             *)
(***************************************************************************)
MkF32(s, e, m) == [s |-> s, e |-> e, m |-> m]

F32Zero(s) == MkF32(s, 0, 0)

\* (hi * 2^24 + lo) shifted right by k >= 1 bits, rounded to nearest, ties to even.
RoundShift(hi, lo, k) ==
    LET q0 == IF k <= MantBits
                 THEN hi * Pow2(MantBits - k) + (lo \div Pow2(k))
                 ELSE hi \div Pow2(k - MantBits)
        r == IF k <= MantBits
                THEN lo % Pow2(k)
                ELSE (hi % Pow2(k - MantBits)) * Limb + lo
        half == Pow2(k - 1)
    IN  IF r > half \/ (r = half /\ q0 % 2 = 1) THEN q0 + 1 ELSE q0

\* The f32 nearest to (-1)^s * (hi * 2^24 + lo) * 2^e.
F32Round(s, hi, lo, e) ==
    LET n == IF hi > 0 THEN MantBits + BitLen(hi) ELSE BitLen(lo)
    IN  IF n = 0 THEN F32Zero(s)
        ELSE IF n <= MantBits
             THEN MkF32(s, e - (MantBits - n), lo * Pow2(MantBits - n))
        ELSE LET k == n - MantBits
                 q == RoundShift(hi, lo, k)
             IN  IF q = Limb THEN MkF32(s, e + k + 1, Pow2(MantBits - 1))
                 ELSE MkF32(s, e + k, q)

\* `x as f32` for an 8-bit x: exact.
F32FromU8(v) == F32Round(0, 0, v, 0)

\* A small integer n (|n| < 2^24) as an f32, as a literal such as 255.0 or 1.0 is.
F32Lit(n) == IF n < 0 THEN F32Round(1, 0, -n, 0) ELSE F32Round(0, 0, n, 0)

F32Neg(a) == MkF32(1 - a.s, a.e, a.m)

\* a * b, correctly rounded.  The 48-bit product of the mantissas is built
\* from 12-bit halves.
F32Mul(a, b) ==
    LET s == (a.s + b.s) % 2
        h == Pow2(12)
        a1 == a.m \div h
        a0 == a.m % h
        b1 == b.m \div h
        b0 == b.m % h
        p0 == a0 * b0
        p1 == a1 * b0 + a0 * b1
        p2 == a1 * b1
        t == p0 + (p1 % h) * h
        lo == t % Limb
        hi == p2 + (p1 \div h) + (t \div Limb)
    IN  IF a.m = 0 \/ b.m = 0 THEN F32Zero(s)
        ELSE F32Round(s, hi, lo, a.e + b.e)

\* a + b, correctly rounded.  x is the operand of larger magnitude, y the other;
\* x's mantissa is aligned to y's exponent and the sum or difference is exact
\* in two limbs before the single rounding.
F32Add(a, b) ==
    LET aBig == a.e > b.e \/ (a.e = b.e /\ a.m >= b.m)
        x == IF aBig THEN a ELSE b
        y == IF aBig THEN b ELSE a
        d == x.e - y.e
        xhi == IF d <= MantBits THEN x.m \div Pow2(MantBits - d)
                                ELSE x.m * Pow2(d - MantBits)
        xlo == IF d <= MantBits THEN (x.m % Pow2(MantBits - d)) * Pow2(d) ELSE 0
        sum == xlo + y.m
        borrow == xlo < y.m
    IN  IF a.m = 0 /\ b.m = 0 THEN F32Zero(IF a.s = b.s THEN a.s ELSE 0)
        ELSE IF a.m = 0 THEN b
        ELSE IF b.m = 0 THEN a
        ELSE IF d > MantBits + 1 THEN x
        ELSE IF x.s = y.s
             THEN F32Round(x.s, xhi + (sum \div Limb), sum % Limb, y.e)
        ELSE IF xhi = 0 /\ xlo = y.m THEN F32Zero(0)
        ELSE IF borrow THEN F32Round(x.s, xhi - 1, xlo + Limb - y.m, y.e)
        ELSE F32Round(x.s, xhi, xlo - y.m, y.e)

F32Sub(a, b) == F32Add(a, F32Neg(b))

\* n further quotient bits of rem / den (rem < den): <<quotient, remainder>>.
RECURSIVE DivBits(_, _, _, _)
DivBits(rem, den, n, q) ==
    IF n = 0 THEN <<q, rem>>
    ELSE IF 2 * rem >= den THEN DivBits(2 * rem - den, den, n - 1, 2 * q + 1)
    ELSE DivBits(2 * rem, den, n - 1, 2 * q)

\* a / b for b # 0, correctly rounded: 26 quotient bits and a sticky bit.
F32Div(a, b) ==
    LET s == (a.s + b.s) % 2
        d == DivBits(a.m % b.m, b.m, MantBits + 1, a.m \div b.m)
        v == 2 * d[1] + (IF d[2] = 0 THEN 0 ELSE 1)
    IN  IF a.m = 0 THEN F32Zero(s)
        ELSE F32Round(s, v \div Limb, v % Limb, a.e - b.e - (MantBits + 2))

\* Float to 32-bit integer, lane by lane: the fractional part is discarded
\* (round toward zero).  Defined for |x| < 2^31.
F32ToI32(x) ==
    LET mag == IF x.m = 0 THEN 0
               ELSE IF x.e >= 0 THEN x.m * Pow2(x.e)
               ELSE IF -x.e >= MantBits THEN 0
               ELSE x.m \div Pow2(-x.e)
    IN  IF x.s = 1 THEN -mag ELSE mag

\* `k as u8` for a 32-bit signed k: the low eight bits.
I32AsU8(k) == k % (U8Max + 1)

(***************************************************************************)
(* 32-bit unsigned values, held as two 16-bit halves: value = hi*2^16 + lo.*)
(***************************************************************************)
U32(hi, lo) == [hi |-> hi, lo |-> lo]

\* x >> n
U32Shr(x, n) ==
    IF n >= 16 THEN U32(0, x.hi \div Pow2(n - 16))
    ELSE U32(x.hi \div Pow2(n), (x.hi % Pow2(n)) * Pow2(16 - n) + (x.lo \div Pow2(n)))

\* x & 0xff
U32AndFF(x) == U32(0, x.lo % (U8Max + 1))

\* `x as u8`: the low eight bits.
U32AsU8(x) == x.lo % (U8Max + 1)

(***************************************************************************)
(* ColorU.                                                                 *)
(***************************************************************************)
\* #[derive(Default)]: every u8 field is 0.
ColorU_default == ColorU_new(0, 0, 0, 0)

\* A faulty variant of from_u32: the channels taken in the order a, b, g, r.
from_u32_abgr(rgba) ==
    [r |-> U32AsU8(U32AndFF(rgba)),
     g |-> U32AsU8(U32AndFF(U32Shr(rgba, 8))),
     b |-> U32AsU8(U32AndFF(U32Shr(rgba, 16))),
     a |-> U32AsU8(U32Shr(rgba, 24))]

from_u32(rgba) ==
    [r |-> U32AsU8(U32Shr(rgba, 24)),
     g |-> U32AsU8(U32AndFF(U32Shr(rgba, 16))),
     b |-> U32AsU8(U32AndFF(U32Shr(rgba, 8))),
     a |-> U32AsU8(U32AndFF(rgba))]

ColorU_transparent_black == from_u32(U32(0, 0))

\* A faulty variant of black: alpha left at 0.
black_alpha0 == [r |-> 0, g |-> 0, b |-> 0, a |-> 0]

black == [r |-> 0, g |-> 0, b |-> 0, a |-> 255]

\* A faulty variant of the constant: 1/255 rounded down instead of to nearest.
Recip255_down ==
    LET x == F32Div(F32Lit(1), F32Lit(255)) IN MkF32(x.s, x.e, x.m - 1)

\* The f32 constant 1.0 / 255.0.
Recip255 == F32Div(F32Lit(1), F32Lit(255))

\* A faulty variant of to_f32: scaling by 1/256.
to_f32_256(c) ==
    <<F32Mul(F32FromU8(c.r), MkF32(0, -31, Pow2(MantBits - 1))),
      F32Mul(F32FromU8(c.g), MkF32(0, -31, Pow2(MantBits - 1))),
      F32Mul(F32FromU8(c.b), MkF32(0, -31, Pow2(MantBits - 1))),
      F32Mul(F32FromU8(c.a), MkF32(0, -31, Pow2(MantBits - 1)))>>

to_f32(c) ==
    <<F32Mul(F32FromU8(c.r), Recip255),
      F32Mul(F32FromU8(c.g), Recip255),
      F32Mul(F32FromU8(c.b), Recip255),
      F32Mul(F32FromU8(c.a), Recip255)>>

\* A faulty variant of is_opaque: any nonzero alpha.
is_opaque_nonzero(c) == c.a # 0

\* !0 for a u8 is 255.
is_opaque(c) == c.a = U8Max

is_fully_transparent(c) == c.a = 0

\* #[derive(PartialEq, Eq)]: field by field.
ColorU_eq(c, d) == c.r = d.r /\ c.g = d.g /\ c.b = d.b /\ c.a = d.a

U8Cmp(x, y) == IF x < y THEN "Less" ELSE IF x > y THEN "Greater" ELSE "Equal"

\* A faulty variant of the ordering: the fields compared in the order a, b, g, r.
ColorU_cmp_abgr(c, d) ==
    IF U8Cmp(c.a, d.a) # "Equal" THEN U8Cmp(c.a, d.a)
    ELSE IF U8Cmp(c.b, d.b) # "Equal" THEN U8Cmp(c.b, d.b)
    ELSE IF U8Cmp(c.g, d.g) # "Equal" THEN U8Cmp(c.g, d.g)
    ELSE U8Cmp(c.r, d.r)

\* #[derive(PartialOrd, Ord)]: the fields in declaration order, the first
\* that is not Equal decides.
ColorU_cmp(c, d) ==
    IF U8Cmp(c.r, d.r) # "Equal" THEN U8Cmp(c.r, d.r)
    ELSE IF U8Cmp(c.g, d.g) # "Equal" THEN U8Cmp(c.g, d.g)
    ELSE IF U8Cmp(c.b, d.b) # "Equal" THEN U8Cmp(c.b, d.b)
    ELSE U8Cmp(c.a, d.a)

(***************************************************************************)
(* ColorF: four f32 lanes <<r, g, b, a>>.                                  *)
(***************************************************************************)
ColorF_new(r, g, b, a) == <<r, g, b, a>>

\* F32x4::default(): every lane is +0.0.
ColorF_default == <<F32Zero(0), F32Zero(0), F32Zero(0), F32Zero(0)>>

ColorF_transparent_black == ColorF_default

\* F32x4::splat(1.0)
white == <<F32Lit(1), F32Lit(1), F32Lit(1), F32Lit(1)>>

\* Float to integer rounding to nearest, ties to even, for |x| < 2^23.
F32ToI32Nearest(x) ==
    LET k == -x.e
        q == IF k > MantBits + 1 THEN 0 ELSE RoundShift(0, x.m, k)
    IN  IF x.m = 0 THEN 0
        ELSE IF x.e >= 0 THEN F32ToI32(x)
        ELSE IF x.s = 1 THEN -q ELSE q

\* A faulty variant of to_u8: the product rounded to nearest, not truncated.
to_u8_nearest(f) ==
    LET color == [i \in 1..4 |-> F32ToI32Nearest(F32Mul(f[i], F32Lit(255)))]
    IN  [r |-> I32AsU8(color[1]), g |-> I32AsU8(color[2]),
         b |-> I32AsU8(color[3]), a |-> I32AsU8(color[4])]

Saturate(k) == IF k < 0 THEN 0 ELSE IF k > U8Max THEN U8Max ELSE k

\* A faulty variant of to_u8: the integer saturated to 0..255, not wrapped.
to_u8_saturating(f) ==
    LET color == [i \in 1..4 |-> F32ToI32(F32Mul(f[i], F32Lit(255)))]
    IN  [r |-> Saturate(color[1]), g |-> Saturate(color[2]),
         b |-> Saturate(color[3]), a |-> Saturate(color[4])]

to_u8(f) ==
    LET color == [i \in 1..4 |-> F32ToI32(F32Mul(f[i], F32Lit(255)))]
    IN  [r |-> I32AsU8(color[1]), g |-> I32AsU8(color[2]),
         b |-> I32AsU8(color[3]), a |-> I32AsU8(color[4])]

\* A faulty variant of lerp: the factor clamped to [0, 1].
lerp_clamped(self, other, t) ==
    LET u == IF t.s = 1 THEN F32Zero(0)
             ELSE IF t.m # 0 /\ t.e > -MantBits THEN F32Lit(1)
             ELSE t
    IN  [i \in 1..4 |-> F32Add(self[i], F32Mul(F32Sub(other[i], self[i]), u))]

lerp(self, other, t) ==
    [i \in 1..4 |-> F32Add(self[i], F32Mul(F32Sub(other[i], self[i]), t))]

(***************************************************************************)
(* Text.  A formatted string is the sequence of its characters.            *)
(***************************************************************************)
Digits == <<"0", "1", "2", "3", "4", "5", "6", "7", "8", "9",
            "a", "b", "c", "d", "e", "f">>

Digit(d) == Digits[d + 1]

\* {:02x}: two lowercase hexadecimal digits, zero padded.
LowerHex02(v) == <<Digit(v \div 16), Digit(v % 16)>>

\* {} for an integer: decimal, no padding.
RECURSIVE Decimal(_)
Decimal(n) == IF n < 10 THEN <<Digit(n)>> ELSE Decimal(n \div 10) \o <<Digit(n % 10)>>

\* n in decimal, padded with zeros on the left to w digits.
RECURSIVE ZeroPad(_, _)
ZeroPad(n, w) == IF w = 0 THEN <<>> ELSE ZeroPad(n \div 10, w - 1) \o <<Digit(n % 10)>>

(***************************************************************************)
(* {} for an f32 prints the shortest decimal that reads back as the same   *)
(* f32, and among those the one closest to it; no exponent is used.  The   *)
(* interval of reals that round to x = m * 2^e runs from x minus half the  *)
(* gap below x to x plus half the gap above it, ends included when m is    *)
(* even.  A real in [0, 1) is held exactly as three 12-bit limbs, a        *)
(* numerator over 2^36.                                                    *)
(***************************************************************************)
FracBase == Pow2(12)

\* w * 2^sh over 2^36, for w < 2^26 and 0 <= sh <= 10.
FracOf(w, sh) ==
    LET b == FracBase
        low == (w % b) * Pow2(sh)
        up == (w \div b) * Pow2(sh) + (low \div b)
    IN  <<up \div b, up % b, low % b>>

\* f * 10: the integer part that comes out, and the fraction that stays.
FracMul10(f) ==
    LET b == FracBase
        t3 == f[3] * 10
        t2 == f[2] * 10 + (t3 \div b)
        t1 == f[1] * 10 + (t2 \div b)
    IN  [int |-> t1 \div b, frac |-> <<t1 % b, t2 % b, t3 % b>>]

\* (acc + f) * 10^n as [int, frac].
RECURSIVE Scale10(_, _, _)
Scale10(f, n, acc) ==
    IF n = 0 THEN [int |-> acc, frac |-> f]
    ELSE LET s == FracMul10(f) IN Scale10(s.frac, n - 1, acc * 10 + s.int)

FracIsZero(f) == f = <<0, 0, 0>>

FracAtLeastHalf(f) == 2 * f[1] >= FracBase

\* The digits after "0." of the shortest decimal for x, 2^-10 <= x < 1,
\* trying n, n + 1, ... decimal places.
RECURSIVE ShortestFrac(_, _)
ShortestFrac(x, n) ==
    LET sh == 34 + x.e
        below == IF x.m = Pow2(MantBits - 1) THEN 1 ELSE 2
        incl == x.m % 2 = 0
        L == Scale10(FracOf(4 * x.m - below, sh), n, 0)
        H == Scale10(FracOf(4 * x.m + 2, sh), n, 0)
        X == Scale10(FracOf(4 * x.m, sh), n, 0)
        kmin == IF FracIsZero(L.frac) /\ incl THEN L.int ELSE L.int + 1
        kmax == IF FracIsZero(H.frac) /\ ~incl THEN H.int - 1 ELSE H.int
        kx == IF FracAtLeastHalf(X.frac) THEN X.int + 1 ELSE X.int
        k == IF kx < kmin THEN kmin ELSE IF kx > kmax THEN kmax ELSE kx
    IN  IF kmin <= kmax THEN ZeroPad(k, n) ELSE ShortestFrac(x, n + 1)

\* {} for an f32 x with x = 0, x = 1 or 2^-10 <= x < 1.
F32Display(x) ==
    IF x.m = 0 THEN <<"0">>
    ELSE IF x = F32Lit(1) THEN <<"1">>
    ELSE <<"0", ".">> \o ShortestFrac(x, 1)

\* A faulty variant of the Debug text: alpha printed as its byte value.
ColorU_fmt_bytealpha(c) ==
    IF c.a = 255
    THEN <<"#">> \o LowerHex02(c.r) \o LowerHex02(c.g) \o LowerHex02(c.b)
    ELSE <<"r", "g", "b", "a", "(">> \o Decimal(c.r) \o <<",", " ">>
         \o Decimal(c.g) \o <<",", " ">> \o Decimal(c.b) \o <<",", " ">>
         \o Decimal(c.a) \o <<")">>

\* impl Debug for ColorU
ColorU_fmt(c) ==
    IF c.a = 255
    THEN <<"#">> \o LowerHex02(c.r) \o LowerHex02(c.g) \o LowerHex02(c.b)
    ELSE <<"r", "g", "b", "a", "(">> \o Decimal(c.r) \o <<",", " ">>
         \o Decimal(c.g) \o <<",", " ">> \o Decimal(c.b) \o <<",", " ">>
         \o F32Display(F32Div(F32FromU8(c.a), F32Lit(255))) \o <<")">>

(***************************************************************************)
(* Inputs.  The operations are pure, so the model is a caller that holds   *)
(* one color value, builds it from arguments drawn from the sets below and *)
(* passes it through the conversions and operations.                       *)
(***************************************************************************)
MaxTrips == 2
MaxLerps == 1
LaneBits == 8
QuarterRange == 24

Byte == 0..U8Max

SampleBytes == {0, 1, 2, 255}

\* Arguments of ColorU::new: every byte value in every channel, the
\* (v, 255 - v, v, 255) family, red at every alpha, and all combinations of
\* a few bytes.
UArgs ==
    {<<v, U8Max - v, (v + 85) % 256, (v + 170) % 256>> : v \in Byte}
    \cup {<<(v + 128) % 256, v, U8Max - v, (v + 85) % 256>> : v \in Byte}
    \cup {<<v, U8Max - v, v, U8Max>> : v \in Byte}
    \cup {<<U8Max, 0, 0, v>> : v \in Byte}
    \cup (SampleBytes \X SampleBytes \X SampleBytes \X SampleBytes)

Halves == {0, 1, 255, 256, 4386, 13124, 32767, 32768, 43981, 65280, 65534, 65535}

\* Arguments of ColorU::from_u32; <<4386, 13124>> is 0x11223344.
U32Args == {U32(h, l) : h \in Halves, l \in Halves}

\* The colors a ColorU is compared with.
CmpOthers ==
    {ColorU_new(1, 0, 0, 0), ColorU_new(1, 1, 0, 0), ColorU_new(2, 0, 0, 0),
     ColorU_new(1, 1, 0, 2), ColorU_new(0, 255, 255, 255), ColorU_new(1, 1, 2, 0)}

\* n / 2^k for an integer n, |n| < 2^24: exact.
F32Scaled(n, k) ==
    LET x == F32Lit(n) IN IF x.m = 0 THEN x ELSE MkF32(x.s, x.e - k, x.m)

\* The f32 d steps above (d > 0) or below (d < 0) a positive x, |d| <= 1.
F32Step(x, d) ==
    IF d = 0 THEN x
    ELSE IF d > 0
         THEN IF x.m + 1 = Limb THEN MkF32(x.s, x.e + 1, Pow2(MantBits - 1))
              ELSE MkF32(x.s, x.e, x.m + 1)
    ELSE IF x.m = Pow2(MantBits - 1) THEN MkF32(x.s, x.e - 1, Limb - 1)
         ELSE MkF32(x.s, x.e, x.m - 1)

\* Lanes in [0, 1]: the multiples of 2^-LaneBits.
Dyadic(n) == F32Scaled(n, LaneBits)

DyadicTop == Pow2(LaneBits)

\* Lanes in (0, 1]: the f32 nearest k / 255 and its two neighbours (the
\* lanes at which the truncated product changes), capped at 1.0.
Near(k, d) ==
    LET x == F32Step(F32Div(F32Lit(k), F32Lit(255)), d)
    IN  IF x.e > -MantBits THEN F32Lit(1) ELSE x

\* Lanes inside and outside [0, 1]: the multiples of 1/4.
Quarter(q) == F32Scaled(q, 2)

\* Arguments of ColorF::new.
FArgs ==
    {<<Dyadic(n), Dyadic(DyadicTop - n), Dyadic((n + 85) % (DyadicTop + 1)),
       Dyadic((n + 170) % (DyadicTop + 1))>> : n \in 0..DyadicTop}
    \cup {<<Near(k, -1), Near(k, 0), Near(k, 1), Near(U8Max + 1 - k, 0)>> :
            k \in 1..U8Max}
    \cup {<<Quarter(q), Quarter(-q), Quarter(q + 4), Quarter(4 - q)>> :
            q \in (-QuarterRange)..QuarterRange}
    \cup {<<Quarter(1000 * q), Quarter(q), Quarter(-1000 * q), Quarter(4)>> :
            q \in 1..QuarterRange}

\* The second color and the factor of a lerp.
LerpOthers ==
    {ColorF_transparent_black, white,
     ColorF_new(Quarter(2), Quarter(1), Quarter(4), Quarter(0))}

LerpTs == {Quarter(0), Quarter(2), Quarter(4), Quarter(6), Quarter(-2)}

(***************************************************************************)
(* The state: the value the caller holds (val), the last call with its     *)
(* arguments and result (call), the ColorU values at the successive ends   *)
(* of an unbroken chain of to_f32 / to_u8 conversions (hist), and the      *)
(* number of lerps applied since the value was built (lerps).              *)
(***************************************************************************)
VARIABLES val, call, hist, lerps

vars == <<val, call, hist, lerps>>

AsU(c) == [c |-> c, kind |-> "U"]

AsF(f) == [c |-> f, kind |-> "F"]

Call(op, self, arg, ret) == [self |-> self, op |-> op, arg |-> arg, ret |-> ret]

Init ==
    /\ val = AsU(ColorU_default)
    /\ call = Call("ColorU::default", <<>>, <<>>, ColorU_default)
    /\ hist = <<ColorU_default>>
    /\ lerps = 0

\* The caller builds its value once, from the state it starts in.
Fresh == call.op = "ColorU::default"

BuildU(op, arg, c) ==
    /\ Fresh
    /\ val' = AsU(c)
    /\ call' = Call(op, <<>>, arg, c)
    /\ hist' = <<c>>
    /\ lerps' = 0

BuildF(op, arg, f) ==
    /\ Fresh
    /\ val' = AsF(f)
    /\ call' = Call(op, <<>>, arg, f)
    /\ hist' = <<>>
    /\ lerps' = 0

Observe(op, arg, ret) ==
    /\ val.kind = "U"
    /\ call' = Call(op, val.c, arg, ret)
    /\ UNCHANGED <<val, hist, lerps>>

NewU == \E q \in UArgs : BuildU("ColorU::new", q, ColorU_new(q[1], q[2], q[3], q[4]))

FromU32 == \E x \in U32Args : BuildU("from_u32", x, from_u32(x))

TransparentBlackU == BuildU("ColorU::transparent_black", <<>>, ColorU_transparent_black)

Black == BuildU("black", <<>>, black)

NewF == \E q \in FArgs : BuildF("ColorF::new", q, ColorF_new(q[1], q[2], q[3], q[4]))

TransparentBlackF == BuildF("ColorF::transparent_black", <<>>, ColorF_transparent_black)

White == BuildF("white", <<>>, white)

ToF32 ==
    /\ val.kind = "U"
    /\ Len(hist) <= MaxTrips
    /\ val' = AsF(to_f32(val.c))
    /\ call' = Call("to_f32", val.c, <<>>, to_f32(val.c))
    /\ UNCHANGED <<hist, lerps>>

ToU8 ==
    /\ val.kind = "F"
    /\ val' = AsU(to_u8(val.c))
    /\ call' = Call("to_u8", val.c, <<>>, to_u8(val.c))
    /\ hist' = Append(hist, to_u8(val.c))
    /\ UNCHANGED lerps

Lerp ==
    /\ val.kind = "F"
    /\ lerps < MaxLerps
    /\ \E other \in LerpOthers, t \in LerpTs :
          /\ val' = AsF(lerp(val.c, other, t))
          /\ call' = Call("lerp", val.c, <<other, t>>, lerp(val.c, other, t))
    /\ hist' = <<>>
    /\ lerps' = lerps + 1

IsOpaque == Observe("is_opaque", <<>>, is_opaque(val.c))

IsFullyTransparent == Observe("is_fully_transparent", <<>>, is_fully_transparent(val.c))

Fmt == Observe("fmt", <<>>, ColorU_fmt(val.c))

Eq ==
    /\ val.kind = "U"
    /\ \E d \in CmpOthers \cup {val.c} : Observe("eq", d, ColorU_eq(val.c, d))

Cmp ==
    /\ val.kind = "U"
    /\ \E d \in CmpOthers \cup {val.c} : Observe("cmp", d, ColorU_cmp(val.c, d))

\* Building and converting: the constructors and the two conversions.
NextConv ==
    \/ NewU
    \/ FromU32
    \/ TransparentBlackU
    \/ Black
    \/ NewF
    \/ TransparentBlackF
    \/ White
    \/ ToF32
    \/ ToU8

\* Interpolating: the ColorF constructors and lerp.
NextLerp ==
    \/ NewF
    \/ TransparentBlackF
    \/ White
    \/ Lerp

\* Inspecting a ColorU: the ColorU constructors and the read-only operations.
NextObs ==
    \/ NewU
    \/ FromU32
    \/ TransparentBlackU
    \/ Black
    \/ IsOpaque
    \/ IsFullyTransparent
    \/ Fmt
    \/ Eq
    \/ Cmp

Next == NextConv \/ Lerp \/ IsOpaque \/ IsFullyTransparent \/ Fmt \/ Eq \/ Cmp

Spec == Init /\ [][Next]_vars

SpecConv == Init /\ [][NextConv]_vars

SpecLerp == Init /\ [][NextLerp]_vars

SpecObs == Init /\ [][NextObs]_vars

(***************************************************************************)
(* Properties.  The exact values they compare against are computed in      *)
(* integer arithmetic, without the rounding steps of the f32 operations.   *)
(***************************************************************************)
Chan(c) == <<c.r, c.g, c.b, c.a>>

Half == MkF32(0, -MantBits, Pow2(MantBits - 1))

One == MkF32(0, 1 - MantBits, Pow2(MantBits - 1))

Lanes(x) == <<x, x, x, x>>

\* x is 0, or positive and at most 1.
InUnit(x) == x.m = 0 \/ (x.s = 0 /\ (x.e < 1 - MantBits \/ x = One))

\* The integer part of the real number 255 * x, for 0 <= x < 2^7: the exact
\* 32-bit product 255 * m in two limbs, shifted right without rounding.
ExactTrunc255(x) ==
    LET h == Pow2(12)
        p1 == 255 * (x.m \div h)
        t == 255 * (x.m % h) + (p1 % h) * h
        lo == t % Limb
        hi == (p1 \div h) + (t \div Limb)
        k == -x.e
    IN  IF x.m = 0 \/ k > 31 THEN 0
        ELSE IF k <= MantBits THEN hi * Pow2(MantBits - k) + (lo \div Pow2(k))
        ELSE hi \div Pow2(k - MantBits)

\* x is a multiple of 2^-p with |x| * 2^p < 2^w.
IsGrid(x, p, w) ==
    \/ x.m = 0
    \/ /\ x.e + p + MantBits <= w
       /\ -(x.e + p) < MantBits
       /\ x.m % Pow2(-(x.e + p)) = 0

\* x * 2^p for such an x.
GridVal(x, p) ==
    LET n == IF x.m = 0 THEN 0 ELSE x.m \div Pow2(-(x.e + p))
    IN  IF x.s = 1 THEN -n ELSE n

\* n / d rounded toward zero, d > 0.
TruncDiv(n, d) == IF n < 0 THEN -((-n) \div d) ELSE n \div d

SameValue(x, y) == (x.m = 0 /\ y.m = 0) \/ x = y

\* C1: a ColorU converted with to_f32 and back with to_u8 is the ColorU it
\* was, channel for channel.
C1_RoundTripExact ==
    (call.op = "to_u8" /\ Len(hist) >= 2) => hist[2] = hist[1]

C1_Witness ==
    /\ call.op = "to_u8"
    /\ hist = <<ColorU_new(254, 1, 254, 255), ColorU_new(254, 1, 254, 255)>>
    /\ val = AsU(ColorU_new(254, 1, 254, 255))

\* C2: from_u32(x) is the four bytes of x from the most significant down:
\* r, g, b, a are bytes that pack back to x, r = x div 2^24,
\* g = (x div 2^16) mod 256, b = (x div 2^8) mod 256, a = x mod 256, and
\* from_u32(0x11223344) = (0x11, 0x22, 0x33, 0x44).
C2_FromU32Unpacks ==
    call.op = "from_u32" =>
        LET x == call.arg
            c == call.ret
            n == x.hi * Pow2(16) + x.lo
        IN  /\ \A i \in 1..4 : Chan(c)[i] \in Byte
            /\ c.r * 256 + c.g = x.hi
            /\ c.b * 256 + c.a = x.lo
            /\ x.hi < Pow2(15) =>
                  /\ c.r = n \div Pow2(24)
                  /\ c.g = (n \div Pow2(16)) % 256
                  /\ c.b = (n \div Pow2(8)) % 256
                  /\ c.a = n % 256
            /\ (x.hi = 4386 /\ x.lo = 13124) => Chan(c) = <<17, 34, 51, 68>>

C2_Witness ==
    /\ call.op = "from_u32"
    /\ call.arg = U32(4386, 13124)
    /\ val = AsU(ColorU_new(17, 34, 51, 68))

\* C3: to_u8 truncates: for a lane x in [0, 1] the channel is the integer
\* part of 255 * x, which lies in 0..255; 0.5 gives 127 and 1.0 gives 255.
C3_ToU8Truncates ==
    call.op = "to_u8" =>
        \A i \in 1..4 :
            LET x == call.self[i]
                ch == Chan(call.ret)[i]
            IN  InUnit(x) =>
                  /\ ch = ExactTrunc255(x)
                  /\ ch \in Byte
                  /\ x = Half => ch = 127
                  /\ x = One => ch = 255

C3_Witness ==
    /\ call.op = "to_u8"
    /\ call.self[1] = Half
    /\ call.ret.r = 127

\* C4: a second round trip changes nothing: with f(c) = c.to_f32().to_u8(),
\* f(f(c)) = f(c).
C4_RoundTripIdempotent ==
    (call.op = "to_u8" /\ Len(hist) >= 3) => hist[3] = hist[2]

C4_Witness ==
    /\ call.op = "to_u8"
    /\ Len(hist) = 3
    /\ hist[1] = ColorU_new(2, 253, 87, 172)
    /\ hist[3] = hist[2]

\* The index of the first channel in which c and d differ, 0 if none does.
FirstDiff(c, d) ==
    LET D == {i \in 1..4 : Chan(c)[i] # Chan(d)[i]}
    IN  IF D = {} THEN 0 ELSE CHOOSE i \in D : \A j \in D : i <= j

Reverse(o) == IF o = "Less" THEN "Greater" ELSE IF o = "Greater" THEN "Less" ELSE o

\* C5: ColorU values are equal iff all four channels are equal; c < d iff at
\* the first of r, g, b, a where they differ c's channel is the smaller; the
\* order is strict and total (exactly one of <, =, > holds, and swapping the
\* operands swaps < and >); (1,0,0,0) < (1,1,0,0) < (2,0,0,0).
C5_StructuralOrder ==
    /\ call.op = "eq" => (call.ret <=> Chan(call.self) = Chan(call.arg))
    /\ call.op = "cmp" =>
          LET c == call.self
              d == call.arg
              i == FirstDiff(c, d)
          IN  /\ call.ret \in {"Less", "Equal", "Greater"}
              /\ call.ret = "Equal" <=> i = 0
              /\ call.ret = "Equal" <=> ColorU_eq(c, d)
              /\ call.ret = "Less" <=> (i # 0 /\ Chan(c)[i] < Chan(d)[i])
              /\ call.ret = "Greater" <=> (i # 0 /\ Chan(c)[i] > Chan(d)[i])
              /\ ColorU_cmp(d, c) = Reverse(call.ret)
              /\ (Chan(c) = <<1, 0, 0, 0>> /\ Chan(d) = <<1, 1, 0, 0>>) => call.ret = "Less"
              /\ (Chan(c) = <<1, 1, 0, 0>> /\ Chan(d) = <<2, 0, 0, 0>>) => call.ret = "Less"

C5_Witness ==
    /\ call.op = "cmp"
    /\ call.self = ColorU_new(1, 1, 0, 0)
    /\ call.arg = ColorU_new(2, 0, 0, 0)
    /\ call.ret = "Less"

\* C6: is_opaque() is true iff a = 255, is_fully_transparent() is true iff
\* a = 0; both are false for every alpha in 1..254 and never true together.
C6_AlphaPredicates ==
    /\ call.op = "is_opaque" =>
          /\ call.ret <=> call.self.a = 255
          /\ call.self.a \in 1..254 => ~call.ret
          /\ call.ret => ~is_fully_transparent(call.self)
    /\ call.op = "is_fully_transparent" =>
          /\ call.ret <=> call.self.a = 0
          /\ call.self.a \in 1..254 => ~call.ret
          /\ call.ret => ~is_opaque(call.self)

C6_Witness ==
    /\ call.op = "is_opaque"
    /\ call.self.a = 255
    /\ call.ret = TRUE

IsLowerHex(ch) == \E d \in 0..15 : Digit(d) = ch

IsDecimal(ch) == \E d \in 0..9 : Digit(d) = ch

DigitVal(ch) == CHOOSE d \in 0..15 : Digit(d) = ch

\* The number a sequence of decimal digits denotes.
RECURSIVE DecVal(_)
DecVal(t) ==
    IF t = <<>> THEN 0 ELSE DecVal(SubSeq(t, 1, Len(t) - 1)) * 10 + DigitVal(t[Len(t)])

\* t is the decimal text of the byte v: digits only, no leading zero.
IsByteText(t, v) ==
    /\ Len(t) \in 1..3
    /\ \A i \in 1..Len(t) : IsDecimal(t[i])
    /\ Len(t) > 1 => t[1] # "0"
    /\ DecVal(t) = v

\* The pieces of t between its commas.
RECURSIVE SplitComma(_)
SplitComma(t) ==
    IF \A i \in 1..Len(t) : t[i] # "," THEN <<t>>
    ELSE LET i == CHOOSE j \in 1..Len(t) : t[j] = "," /\ \A k \in 1..(j - 1) : t[k] # ","
         IN  <<SubSeq(t, 1, i - 1)>> \o SplitComma(SubSeq(t, i + 1, Len(t)))

\* t is a decimal text "0" or "0.d1d2..." and, cut after six decimal places,
\* is within one millionth of a / 255.
IsAlphaText(t, a) ==
    LET frac == SubSeq(t, 3, Len(t))
        six == SubSeq(frac \o <<"0", "0", "0", "0", "0", "0">>, 1, 6)
    IN  /\ Len(t) >= 1
        /\ t[1] = "0"
        /\ Len(t) > 1 => (Len(t) >= 3 /\ t[2] = "." /\ \A i \in 3..Len(t) : IsDecimal(t[i]))
        /\ DecVal(six) - ((a * 1000000) \div 255) \in -1..1

\* The two forms of the Debug text of c.
FmtForms(c, t) ==
    /\ c.a = 255 =>
          /\ Len(t) = 7
          /\ t[1] = "#"
          /\ \A i \in 2..7 : IsLowerHex(t[i])
          /\ DigitVal(t[2]) * 16 + DigitVal(t[3]) = c.r
          /\ DigitVal(t[4]) * 16 + DigitVal(t[5]) = c.g
          /\ DigitVal(t[6]) * 16 + DigitVal(t[7]) = c.b
    /\ c.a # 255 =>
          /\ Len(t) >= 7
          /\ SubSeq(t, 1, 5) = <<"r", "g", "b", "a", "(">>
          /\ t[Len(t)] = ")"
          /\ LET f == SplitComma(SubSeq(t, 6, Len(t) - 1))
             IN  /\ Len(f) = 4
                 /\ IsByteText(f[1], c.r)
                 /\ \A i \in 2..4 : Len(f[i]) >= 2 /\ f[i][1] = " "
                 /\ IsByteText(SubSeq(f[2], 2, Len(f[2])), c.g)
                 /\ IsByteText(SubSeq(f[3], 2, Len(f[3])), c.b)
                 /\ IsAlphaText(SubSeq(f[4], 2, Len(f[4])), c.a)
    /\ Chan(c) = <<255, 0, 0, 255>> => t = <<"#", "f", "f", "0", "0", "0", "0">>

\* C7, as stated: the Debug text is '#rrggbb' (six lowercase hex digits) iff
\* a = 255 and otherwise 'rgba(r, g, b, A)' with decimal bytes and A the
\* text of a / 255.0; (255,0,0,255) gives '#ff0000' and (255,0,0,128) gives
\* a text that starts 'rgba(255, 0, 0, 0.50196078'.
C7_DebugTextAsStated ==
    call.op = "fmt" =>
        /\ FmtForms(call.self, call.ret)
        /\ Chan(call.self) = <<255, 0, 0, 128>> =>
              /\ Len(call.ret) >= 26
              /\ SubSeq(call.ret, 1, 26) =
                    <<"r", "g", "b", "a", "(", "2", "5", "5", ",", " ", "0", ",", " ",
                      "0", ",", " ", "0", ".", "5", "0", "1", "9", "6", "0", "7", "8">>

\* C7, amended: the same two forms; (255,0,0,128) gives exactly
\* 'rgba(255, 0, 0, 0.5019608)', the shortest decimal that reads back as the
\* f32 128.0 / 255.0.
C7_DebugText ==
    call.op = "fmt" =>
        /\ FmtForms(call.self, call.ret)
        /\ Chan(call.self) = <<255, 0, 0, 128>> =>
              call.ret =
                 <<"r", "g", "b", "a", "(", "2", "5", "5", ",", " ", "0", ",", " ",
                   "0", ",", " ", "0", ".", "5", "0", "1", "9", "6", "0", "8", ")">>

C7_Witness ==
    /\ call.op = "fmt"
    /\ call.self = ColorU_new(255, 0, 0, 128)
    /\ Len(call.ret) = 26
    /\ call.ret[1] = "r"

\* C8: lerp computes self + (other - self) * t on each of the four lanes,
\* alpha included, with t not clamped and nothing premultiplied.  Where
\* self, other (multiples of 2^-14 below 16) and t (a multiple of 1/4 below
\* 8) make that value a multiple of 2^-14, the lane holds exactly it; t = 0
\* gives self on every lane; from transparent_black() to white() at t = 0.5
\* every lane is 0.5.
C8_LerpPerLane ==
    call.op = "lerp" =>
        LET other == call.arg[1]
            t == call.arg[2]
        IN  /\ \A i \in 1..4 :
                  LET S == GridVal(call.self[i], 14)
                      O == GridVal(other[i], 14)
                      T == GridVal(t, 2)
                  IN  /\ ( /\ IsGrid(call.self[i], 14, 18)
                           /\ IsGrid(other[i], 14, 18)
                           /\ IsGrid(t, 2, 5)
                           /\ ((O - S) * T) % 4 = 0 )
                         => /\ IsGrid(call.ret[i], 14, MantBits)
                            /\ GridVal(call.ret[i], 14) = S + TruncDiv((O - S) * T, 4)
                      /\ t.m = 0 => SameValue(call.ret[i], call.self[i])
            /\ ( /\ call.self = ColorF_transparent_black
                 /\ other = Lanes(One)
                 /\ t = Half )
               => call.ret = Lanes(Half)

C8_Witness ==
    /\ call.op = "lerp"
    /\ call.self = Lanes(F32Zero(0))
    /\ call.arg = <<Lanes(One), Half>>
    /\ call.ret = Lanes(Half)
    /\ val = AsF(Lanes(Half))

\* C9: ColorU::transparent_black() is (0,0,0,0), the ColorU default;
\* ColorF::transparent_black() has lanes (0,0,0,0), the ColorF default;
\* ColorU::black() is (0,0,0,255); ColorF::white() has lanes (1,1,1,1).
C9_Constants ==
    /\ call.op = "ColorU::transparent_black" =>
          /\ Chan(call.ret) = <<0, 0, 0, 0>>
          /\ call.ret = ColorU_default
    /\ call.op = "ColorU::default" => Chan(call.ret) = <<0, 0, 0, 0>>
    /\ call.op = "ColorF::transparent_black" =>
          /\ \A i \in 1..4 : call.ret[i].m = 0
          /\ call.ret = ColorF_default
    /\ call.op = "black" => Chan(call.ret) = <<0, 0, 0, 255>>
    /\ call.op = "white" =>
          \A i \in 1..4 :
              /\ call.ret[i].s = 0
              /\ IsGrid(call.ret[i], 0, MantBits)
              /\ GridVal(call.ret[i], 0) = 1

C9_Witness ==
    /\ call.op = "black"
    /\ val = AsU(ColorU_new(0, 0, 0, 255))

\* C10: to_u8 does not clamp: for a lane x (a multiple of 1/4 below 2^14,
\* so that 255 * x is exact) whose product with 255 truncates to an integer
\* k outside 0..255, the channel is k mod 256; 2.0 gives 254 and -1.0
\* gives 1.
C10_ToU8Wraps ==
    call.op = "to_u8" =>
        \A i \in 1..4 :
            LET x == call.self[i]
                ch == Chan(call.ret)[i]
                k == TruncDiv(255 * GridVal(x, 2), 4)
            IN  /\ (IsGrid(x, 2, 16) /\ k \notin Byte) => ch = k % 256
                /\ x = MkF32(0, 2 - MantBits, Pow2(MantBits - 1)) => ch = 254
                /\ x = MkF32(1, 1 - MantBits, Pow2(MantBits - 1)) => ch = 1

C10_Witness ==
    /\ call.op = "to_u8"
    /\ call.self = <<Quarter(8), Quarter(-8), Quarter(12), Quarter(-4)>>
    /\ Chan(call.ret) = <<254, 2, 253, 1>>

====
